---- MODULE Spec2Model ----
(***************************************************************************)
(* Turn scheduler (BattleManager), action commands and attack resolution   *)
(* of the hex boss-battler.                                                *)
(*                                                                         *)
(* Spec        the scheduler driven through its mutation surface           *)
(*             (StartBattle, QueueAction, ExecutePendingAction, NextTurn)  *)
(* SpecCombat  the pure combat functions (Modifier, CalculateAC,           *)
(*             RollDamage, PerformAttack) applied to bounded inputs        *)
(* SpecCommands  Validate and Execute of the commands, Damage and Heal     *)
(* SpecPath    hex.FindPath, one loop iteration per step                   *)
(* SpecSight   hex.HasLineOfSight, hex.GetVisibleHexes and                 *)
(*             hex.HexDistance applied to bounded inputs                   *)
(* SpecLayout  hex.Layout: ZoomIn, ZoomOut and the pixel round trip        *)
(* SpecDriver  Game.Update run frame by frame, with the manual NextTurn    *)
(* SpecStart   StartBattle with every face of the initiative die           *)
(* SpecLog     BattleManager.AddLog called past the capacity of the log    *)
(***************************************************************************)
EXTENDS Integers, Sequences, FiniteSets, TLC

VARIABLES
    roster,         \* entity -> immutable components (tag, stats, weapon, armor, Max)
    health,         \* entity -> HealthData.Current
    initiative,     \* entity -> InitiativeData [Roll, Went]
    activeTurn,     \* entities carrying ActiveTurnComponent
    State,          \* BattleManager.State
    TurnOrder,      \* BattleManager.TurnOrder (sequence of entities)
    CurrentIdx,     \* BattleManager.CurrentIdx (0-based, as in the source)
    Round,          \* BattleManager.Round
    PendingAction,  \* BattleManager.PendingAction (NoAction = nil)
    CombatLog,      \* BattleManager.CombatLog
    started,        \* Game.started
    lastOp,         \* history: the operation that produced this state
    lastErr,        \* history: error returned by lastOp ("" = nil)
    lastAttack,     \* history: AttackResult of the PerformAttack run by lastOp
    lastArg,        \* history: argument of a pure function applied by lastOp
    lastRet,        \* history: what that function returned
    logged,         \* history: number of lines ever passed to AddLog
    advances,       \* history: NextTurn calls since StartBattle
    search,         \* the FindPath call in progress: arguments, locals, result
    HexSize,        \* hex.HexSize (package variable)
    zooms,          \* history: ZoomIn and ZoomOut calls so far
    frame           \* history: parity of the frames run by Game.Update

vars == <<roster, health, initiative, activeTurn, State, TurnOrder, CurrentIdx,
          Round, PendingAction, CombatLog, started, lastOp, lastErr,
          lastAttack, lastArg, lastRet, logged, advances, search, HexSize,
          zooms, frame>>

----------------------------------------------------------------------------
(* Bounds of the exploration *)

MaxRound == 2        \* scheduler operations stop once Round exceeds this
MaxLogged == 4       \* commands are executed while fewer lines than this were logged
MinScore == 1        \* ability scores explored by SpecCombat
MaxScore == 20
MaxAmount == 3       \* amounts passed to Damage and Heal by SpecCommands
MaxBlocked == 3      \* hexes of the board the walkability predicate rejects
MaxRange == 3        \* ranges passed to GetVisibleHexes
IntBits == 16        \* width to which the 64-bit integers of Hex are narrowed
FloatBits == 8       \* width to which the 53-bit mantissa of float64 is narrowed
MaxZoom == 30        \* ZoomIn and ZoomOut calls of one behaviour
MaxAppends == 12     \* AddLog calls of one behaviour of SpecLog

(* Program constants *)

ProficiencyBonus == 2
MaxLogEntries == 10
D20 == 20
Unlimited == -1      \* ArmorData.MaxDex value meaning "no cap"

----------------------------------------------------------------------------
(* Arithmetic helpers *)

Min2(a, b) == IF a < b THEN a ELSE b
Max2(a, b) == IF a > b THEN a ELSE b

\* Go's integer division truncates toward zero.
GoDiv(a, b) == IF a >= 0 THEN a \div b ELSE -((-a) \div b)

\* Mathematical floor division, used to state the specification's formula.
FloorDiv(a, b) == a \div b

RECURSIVE SumSeq(_)
SumSeq(s) == IF s = <<>> THEN 0 ELSE Head(s) + SumSeq(Tail(s))

abs(x) == IF x < 0 THEN -x ELSE x

(* float64 arithmetic: a value is m * 2^e with the mantissa m rounded to    *)
(* FloatBits bits (round to nearest, ties to even) after every operation   *)

RECURSIVE BitLen(_)
BitLen(a) == IF a = 0 THEN 0 ELSE 1 + BitLen(a \div 2)

Sign(n) == IF n < 0 THEN -1 ELSE 1

\* the float nearest to n * 2^e
RoundFloat(n, e) ==
    IF n = 0 THEN [m |-> 0, e |-> 0]
    ELSE LET a == abs(n)
             len == BitLen(a)
         IN  IF len <= FloatBits
             THEN [m |-> n * 2 ^ (FloatBits - len), e |-> e - (FloatBits - len)]
             ELSE LET k == len - FloatBits
                      q == a \div 2 ^ k
                      rem == a % 2 ^ k
                      half == 2 ^ (k - 1)
                      up == IF rem > half \/ (rem = half /\ q % 2 = 1)
                            THEN 1 ELSE 0
                  IN  IF q + up = 2 ^ FloatBits
                      THEN [m |-> Sign(n) * 2 ^ (FloatBits - 1), e |-> e + k + 1]
                      ELSE [m |-> Sign(n) * (q + up), e |-> e + k]

\* float64(k) of an integer k
FromInt(k) == RoundFloat(k, 0)

\* x * y
FMul(x, y) == RoundFloat(x.m * y.m, x.e + y.e)

\* x / y for y # 0: the quotient to FloatBits + 2 bits and a sticky bit
FDiv(x, y) ==
    IF x.m = 0 THEN x
    ELSE LET num == abs(x.m) * 2 ^ (FloatBits + 2)
             n == num \div abs(y.m)
             sticky == IF num % abs(y.m) = 0 THEN 0 ELSE 1
         IN  RoundFloat(Sign(x.m) * Sign(y.m) * (2 * n + sticky),
                        x.e - y.e - (FloatBits + 2) - 1)

\* x + y: an operand below a quarter of the other's last place is absorbed
FAdd(x, y) ==
    IF x.m = 0 THEN y
    ELSE IF y.m = 0 THEN x
    ELSE LET hi == IF x.e >= y.e THEN x ELSE y
             lo == IF x.e >= y.e THEN y ELSE x
             d == hi.e - lo.e
         IN  IF d > FloatBits + 1 THEN hi
             ELSE RoundFloat(hi.m * 2 ^ d + lo.m, lo.e)

FNeg(x) == [m |-> -x.m, e |-> x.e]
FSub(x, y) == FAdd(x, FNeg(y))
FAbs(x) == [m |-> abs(x.m), e |-> x.e]
FGreater(x, y) == FSub(x, y).m > 0

\* the integer nearest to x, halves away from zero
FRound(x) ==
    IF x.m = 0 THEN 0
    ELSE IF x.e >= 0 THEN x.m * 2 ^ x.e
    ELSE IF -x.e > FloatBits THEN 0
    ELSE Sign(x.m) * ((abs(x.m) + 2 ^ (-x.e - 1)) \div 2 ^ (-x.e))

\* math.Sqrt(3) and the constant 1.1 of ZoomIn and ZoomOut
Sqrt3 == RoundFloat(1816187, -20)
ZoomFactor == FDiv(FromInt(11), FromInt(10))

IsoScaleX == FromInt(1)
IsoScaleY == RoundFloat(1, -1)
OffsetX == FromInt(640)
OffsetY == FromInt(360)
InitialHexSize == FromInt(40)

----------------------------------------------------------------------------
(* components: stats, armor, weapon, health *)

\* StatsData.Modifier: return (stat - 10) / 2
Modifier(stat) == GoDiv(stat - 10, 2)

StrMod(c) == Modifier(c.Strength)
DexMod(c) == Modifier(c.Dexterity)

\* CalculateAC that never caps the dexterity bonus
CalculateAC_Uncapped(a, dexMod) == a.BaseAC + dexMod

\* ArmorData.CalculateAC
CalculateAC(a, dexMod) ==
    IF a.MaxDex = Unlimited THEN a.BaseAC + dexMod
    ELSE IF a.MaxDex > 0
         THEN (IF dexMod > a.MaxDex THEN a.BaseAC + a.MaxDex ELSE a.BaseAC + dexMod)
         ELSE a.BaseAC

\* WeaponData.RollDamage: the totals the dice loop can produce
RollDamage(w) ==
    { SumSeq(f) : f \in [1..w.DamageDice -> 1..w.DamageDie] }

\* HealthData.IsDead
IsDead(cur) == cur <= 0

\* Damage without the floor at 0
Damage_NoFloor(cur, amount) == cur - amount

\* HealthData.Damage
Damage(cur, amount) == IF cur - amount < 0 THEN 0 ELSE cur - amount

\* Heal without the cap at Max
Heal_NoCap(cur, max, amount) == cur + amount

\* HealthData.Heal
Heal(cur, max, amount) == IF cur + amount > max THEN max ELSE cur + amount

----------------------------------------------------------------------------
(* combat.PerformAttack *)

NoAttack ==
    [Hit |-> FALSE, Critical |-> FALSE, AttackRoll |-> 0, TotalAttack |-> 0,
     TargetAC |-> 0, Damage |-> 0, Killed |-> FALSE,
     AttackerName |-> 0, TargetName |-> 0]

\* the ability modifier the weapon keys off
WeaponMod(c) ==
    IF c.weapon.UsesStat = "STR" THEN StrMod(c)
    ELSE IF c.weapon.UsesStat = "DEX" THEN DexMod(c)
    ELSE 0

\* PerformAttack without the natural-1 branch
PerformAttack_NoNaturalOne(a, t, att, tgt, cur, d20, dmg1, dmg2) ==
    LET TargetAC    == CalculateAC(tgt.armor, DexMod(tgt))
        TotalAttack == d20 + WeaponMod(att) + ProficiencyBonus
        Critical    == d20 = 20
        Hit         == IF d20 = 20 THEN TRUE ELSE TotalAttack >= TargetAC
        baseDamage  == IF Critical THEN dmg1 + dmg2 ELSE dmg1
        Dmg         == IF baseDamage + WeaponMod(att) < 1 THEN 1
                       ELSE baseDamage + WeaponMod(att)
        cur1        == IF Hit THEN Damage(cur, Dmg) ELSE cur
    IN  [res |-> [Hit |-> Hit, Critical |-> Critical, AttackRoll |-> d20,
                  TotalAttack |-> TotalAttack, TargetAC |-> TargetAC,
                  Damage |-> IF Hit THEN Dmg ELSE 0,
                  Killed |-> Hit /\ IsDead(cur1),
                  AttackerName |-> a, TargetName |-> t],
         Current |-> cur1]

\* a, t: entity ids; att, tgt: their components; cur: target's Current;
\* d20: the attack die; dmg1, dmg2: first and (critical) second RollDamage.
\* Returns the AttackResult and the target's Current afterwards.
PerformAttack(a, t, att, tgt, cur, d20, dmg1, dmg2) ==
    LET TargetAC    == CalculateAC(tgt.armor, DexMod(tgt))
        attackBonus == WeaponMod(att) + ProficiencyBonus
        TotalAttack == d20 + attackBonus
        Critical    == d20 = 20
        Hit         == IF d20 = 20 THEN TRUE
                       ELSE IF d20 = 1 THEN FALSE
                       ELSE TotalAttack >= TargetAC
        baseDamage  == IF Critical THEN dmg1 + dmg2 ELSE dmg1
        damageBonus == WeaponMod(att)
        Dmg         == IF baseDamage + damageBonus < 1 THEN 1
                       ELSE baseDamage + damageBonus
        cur1        == IF Hit THEN Damage(cur, Dmg) ELSE cur
    IN  [res |-> [Hit |-> Hit, Critical |-> Critical, AttackRoll |-> d20,
                  TotalAttack |-> TotalAttack, TargetAC |-> TargetAC,
                  Damage |-> IF Hit THEN Dmg ELSE 0,
                  Killed |-> Hit /\ IsDead(cur1),
                  AttackerName |-> a, TargetName |-> t],
         Current |-> cur1]

\* the dice one PerformAttack call consumes: the d20, RollDamage only on a
\* hit, RollDamage a second time only on a critical (0 = not rolled)
AttackRolls(att, tgt) ==
    UNION { LET r == PerformAttack(0, 0, att, tgt, 0, d20, 0, 0).res
            IN  { <<d20, dmg1, dmg2>> :
                    dmg1 \in (IF r.Hit THEN RollDamage(att.weapon) ELSE {0}),
                    dmg2 \in (IF r.Critical THEN RollDamage(att.weapon) ELSE {0}) } :
            d20 \in 1..D20 }

----------------------------------------------------------------------------
(* commands: Action, AttackAction, WaitAction *)

NoAction == [kind |-> "nil", Actor |-> 0, Target |-> 0]
WaitAction(actor) == [kind |-> "Wait", Actor |-> actor, Target |-> 0]
AttackAction(attacker, target) ==
    [kind |-> "Attack", Actor |-> attacker, Target |-> target]

Entities == DOMAIN roster

\* donburi.Entry.Valid: entities are never removed from the world
Valid(e) == e \in Entities

\* the commands a caller can construct
Actions ==
    { WaitAction(e) : e \in Entities }
        \cup { AttackAction(a, t) : a \in Entities, t \in Entities }

\* AttackAction.Validate without the self-attack test
AttackValidate_AllowsSelf(action, hp) ==
    IF ~Valid(action.Actor) THEN "attacker is not valid"
    ELSE IF IsDead(hp[action.Actor]) THEN "attacker is dead"
    ELSE IF ~Valid(action.Target) THEN "target is not valid"
    ELSE IF IsDead(hp[action.Target]) THEN "target is already dead"
    ELSE ""

\* AttackAction.Validate; "" is the nil error
AttackValidate(action, hp) ==
    IF ~Valid(action.Actor) THEN "attacker is not valid"
    ELSE IF IsDead(hp[action.Actor]) THEN "attacker is dead"
    ELSE IF ~Valid(action.Target) THEN "target is not valid"
    ELSE IF IsDead(hp[action.Target]) THEN "target is already dead"
    ELSE IF action.Actor = action.Target THEN "cannot attack self"
    ELSE ""

\* WaitAction.Validate that refuses a dead actor
WaitValidate_RejectsDead(action, hp) ==
    IF IsDead(hp[action.Actor]) THEN "actor is dead" ELSE ""

\* WaitAction.Validate
WaitValidate(action, hp) == ""

\* Action.Validate, dispatched on the command's type
Validate(action, hp) ==
    IF action.kind = "Attack" THEN AttackValidate(action, hp)
    ELSE WaitValidate(action, hp)

\* ActionResult.Logs: the wording of a line plays no role in the scheduler,
\* so a command's result carries the number of lines it logs
AttackLogs == 1      \* Logs: []string{result.String()}
WaitLogs == 1        \* Logs: []string{actorName + " waits"}

\* AttackAction.Execute with the damage landing on the attacker
AttackExecute_DamagesAttacker(action, hp) ==
    IF AttackValidate(action, hp) # ""
    THEN { [Success |-> FALSE, Logs |-> 0, Names |-> {}, health |-> hp,
            attack |-> NoAttack] }
    ELSE LET a == action.Actor
             t == action.Target
         IN  { LET r == PerformAttack(a, t, roster[a], roster[t], hp[t],
                                      dice[1], dice[2], dice[3])
               IN  [Success |-> TRUE,
                    Logs    |-> AttackLogs,
                    Names   |-> {a, t},
                    health  |-> [hp EXCEPT ![a] = Damage(hp[a], r.res.Damage)],
                    attack  |-> r.res] :
               dice \in AttackRolls(roster[a], roster[t]) }

\* AttackAction.Execute: every outcome the dice allow.
\* Each outcome is [Success, Logs, Names, health, attack]; Names are the
\* combatants the logged line names.
AttackExecute(action, hp) ==
    IF AttackValidate(action, hp) # ""
    THEN { [Success |-> FALSE, Logs |-> 0, Names |-> {}, health |-> hp,
            attack |-> NoAttack] }
    ELSE LET a == action.Actor
             t == action.Target
         IN  { LET r == PerformAttack(a, t, roster[a], roster[t], hp[t],
                                      dice[1], dice[2], dice[3])
               IN  [Success |-> TRUE,
                    Logs    |-> AttackLogs,
                    Names   |-> {a, t},
                    health  |-> [hp EXCEPT ![t] = r.Current],
                    attack  |-> r.res] :
               dice \in AttackRolls(roster[a], roster[t]) }

\* WaitAction.Execute
WaitExecute(action, hp) ==
    { [Success |-> TRUE, Logs |-> WaitLogs, Names |-> {action.Actor},
       health |-> hp, attack |-> NoAttack] }

\* Action.Execute, dispatched on the command's type
Execute(action, hp) ==
    IF action.kind = "Attack" THEN AttackExecute(action, hp)
    ELSE WaitExecute(action, hp)

----------------------------------------------------------------------------
(* states: BattleManager.  The helpers work on a record m of the mutable    *)
(* fields, the actions below apply them to the variables.                   *)

Machine ==
    [State |-> State, TurnOrder |-> TurnOrder, CurrentIdx |-> CurrentIdx,
     Round |-> Round, PendingAction |-> PendingAction, CombatLog |-> CombatLog,
     logged |-> logged, health |-> health, initiative |-> initiative, activeTurn |-> activeTurn]

Apply(m) ==
    /\ State' = m.State
    /\ TurnOrder' = m.TurnOrder
    /\ CurrentIdx' = m.CurrentIdx
    /\ Round' = m.Round
    /\ PendingAction' = m.PendingAction
    /\ CombatLog' = m.CombatLog
    /\ logged' = m.logged
    /\ health' = m.health
    /\ initiative' = m.initiative
    /\ activeTurn' = m.activeTurn

\* AddLog that drops the newest entry when the log is full
AddLog_DropsNewest(log, message) ==
    LET l == Append(log, message)
    IN  IF Len(l) > MaxLogEntries THEN SubSeq(l, 1, Len(l) - 1) ELSE l

\* BattleManager.AddLog
AddLog(log, message) ==
    LET l == Append(log, message)
    IN  IF Len(l) > MaxLogEntries THEN Tail(l) ELSE l

\* a call b.AddLog(text): the line is stamped with its serial number, which
\* tells apart lines of equal wording
LogLine(m, text) ==
    [m EXCEPT !.logged = @ + 1,
              !.CombatLog = AddLog(@, [n |-> m.logged + 1, text |-> text])]

\* for _, logEntry := range result.Logs { b.AddLog(logEntry) }
RECURSIVE LogLines(_, _)
LogLines(m, count) ==
    IF count = 0 THEN m ELSE LogLines(LogLine(m, "result"), count - 1)

\* BattleManager.GetActiveCombatant (0 = nil)
GetActiveCombatant(m) ==
    IF m.CurrentIdx >= Len(m.TurnOrder) THEN 0
    ELSE m.TurnOrder[m.CurrentIdx + 1]

\* BattleManager.markActiveCombatant
markActiveCombatant(m) ==
    IF m.CurrentIdx >= Len(m.TurnOrder) THEN m
    ELSE [m EXCEPT !.activeTurn = @ \cup {m.TurnOrder[m.CurrentIdx + 1]}]

\* BattleManager.determineState
determineState(m) ==
    IF m.CurrentIdx >= Len(m.TurnOrder) THEN m
    ELSE IF roster[m.TurnOrder[m.CurrentIdx + 1]].player
         THEN [m EXCEPT !.State = "WaitingForPlayerInput"]
         ELSE [m EXCEPT !.State = "EnemyTurn"]

\* endRound without the loop that resets the "went" flags
endRound_KeepsFlags(m) ==
    determineState(markActiveCombatant([m EXCEPT !.CurrentIdx = 0, !.Round = @ + 1]))

\* endRound that also clears the initiative rolls
endRound_ResetsRolls(m) ==
    LET m1 == [m EXCEPT !.CurrentIdx = 0,
                        !.Round = @ + 1,
                        !.initiative = [e \in DOMAIN @ |->
                            IF \E i \in 1..Len(m.TurnOrder) : m.TurnOrder[i] = e
                            THEN [Roll |-> 0, Went |-> FALSE] ELSE @[e]]]
    IN  determineState(markActiveCombatant(m1))

\* BattleManager.endRound
endRound(m) ==
    LET m1 == [m EXCEPT !.CurrentIdx = 0,
                        !.Round = @ + 1,
                        !.initiative = [e \in DOMAIN @ |->
                            IF \E i \in 1..Len(m.TurnOrder) : m.TurnOrder[i] = e
                            THEN [@[e] EXCEPT !.Went = FALSE] ELSE @[e]]]
    IN  determineState(markActiveCombatant(m1))

\* NextTurn without the test for the end of the round
NextTurnOf_NeverWraps(m) ==
    LET cur == m.TurnOrder[m.CurrentIdx + 1]
        m1  == IF m.CurrentIdx < Len(m.TurnOrder)
               THEN [m EXCEPT !.initiative[cur].Went = TRUE,
                              !.activeTurn = @ \ {cur}]
               ELSE m
        m2  == [m1 EXCEPT !.CurrentIdx = @ + 1]
    IN  determineState(markActiveCombatant(m2))

\* NextTurn that does not mark the current combatant as having gone
NextTurnOf_LeavesWent(m) ==
    LET cur == m.TurnOrder[m.CurrentIdx + 1]
        m1  == IF m.CurrentIdx < Len(m.TurnOrder)
               THEN [m EXCEPT !.activeTurn = @ \ {cur}]
               ELSE m
        m2  == [m1 EXCEPT !.CurrentIdx = @ + 1]
    IN  IF m2.CurrentIdx >= Len(m2.TurnOrder) THEN endRound(m2)
        ELSE determineState(markActiveCombatant(m2))

\* BattleManager.NextTurn
NextTurnOf(m) ==
    LET cur == m.TurnOrder[m.CurrentIdx + 1]
        m1  == IF m.CurrentIdx < Len(m.TurnOrder)
               THEN [m EXCEPT !.initiative[cur].Went = TRUE,
                              !.activeTurn = @ \ {cur}]
               ELSE m
        m2  == [m1 EXCEPT !.CurrentIdx = @ + 1]
    IN  IF m2.CurrentIdx >= Len(m2.TurnOrder) THEN endRound(m2)
        ELSE determineState(markActiveCombatant(m2))

\* BattleManager.CheckVictoryConditions
playerAlive(m) ==
    \E i \in 1..Len(m.TurnOrder) :
        ~IsDead(m.health[m.TurnOrder[i]]) /\ roster[m.TurnOrder[i]].player
enemyAlive(m) ==
    \E i \in 1..Len(m.TurnOrder) :
        ~IsDead(m.health[m.TurnOrder[i]]) /\ ~roster[m.TurnOrder[i]].player

\* CheckVictoryConditions without the IsDead test: the dead count as alive
CheckVictoryConditions_CountsDead(m) ==
    IF ~\E i \in 1..Len(m.TurnOrder) : roster[m.TurnOrder[i]].player
    THEN LogLine([m EXCEPT !.State = "Defeat"], "=== DEFEAT")
    ELSE IF ~\E i \in 1..Len(m.TurnOrder) : ~roster[m.TurnOrder[i]].player
    THEN LogLine([m EXCEPT !.State = "Victory"], "=== VICTORY")
    ELSE m

CheckVictoryConditions(m) ==
    IF ~playerAlive(m)
    THEN LogLine([m EXCEPT !.State = "Defeat"], "=== DEFEAT")
    ELSE IF ~enemyAlive(m)
    THEN LogLine([m EXCEPT !.State = "Victory"], "=== VICTORY")
    ELSE m

----------------------------------------------------------------------------
(* Rosters: the worlds the battle is explored on *)

Sword    == [DamageDice |-> 1, DamageDie |-> 6, UsesStat |-> "STR"]
Dagger   == [DamageDice |-> 1, DamageDie |-> 4, UsesStat |-> "DEX"]
Claws    == [DamageDice |-> 2, DamageDie |-> 6, UsesStat |-> "STR"]
Robes    == [BaseAC |-> 10, MaxDex |-> Unlimited]
Leather  == [BaseAC |-> 12, MaxDex |-> Unlimited]
Natural  == [BaseAC |-> 13, MaxDex |-> 2]
Plate    == [BaseAC |-> 16, MaxDex |-> 0]

Combatant(isPlayer, str, dex, hp, w, a) ==
    [player |-> isPlayer, Strength |-> str, Dexterity |-> dex, Max |-> hp,
     weapon |-> w, armor |-> a]

\* two party members and a boss
Skirmish ==
    (1 :> Combatant(TRUE, 16, 12, 3, Sword, Leather)) @@
    (2 :> Combatant(TRUE, 8, 14, 2, Dagger, Robes)) @@
    (3 :> Combatant(FALSE, 14, 10, 4, Claws, Natural))

\* one player (100 HP, AC 10) against one enemy (1 HP), and the reverse
DuelVictory ==
    (1 :> Combatant(TRUE, 10, 10, 100, Sword, Robes)) @@
    (2 :> Combatant(FALSE, 10, 10, 1, Sword, Leather))
DuelDefeat ==
    (1 :> Combatant(TRUE, 10, 10, 1, Sword, Robes)) @@
    (2 :> Combatant(FALSE, 10, 10, 100, Sword, Leather))

----------------------------------------------------------------------------
(* Construction: NewGame / NewBattleManager *)

InitWorld(r) ==
    /\ roster = r
    /\ health = [e \in DOMAIN r |-> r[e].Max]
    /\ initiative = [e \in DOMAIN r |-> [Roll |-> 0, Went |-> FALSE]]
    /\ activeTurn = {}

NewBattleManager ==
    /\ State = "BattleStart"
    /\ TurnOrder = <<>>
    /\ CurrentIdx = 0
    /\ Round = 1
    /\ PendingAction = NoAction
    /\ CombatLog = <<>>

\* no FindPath call is in progress
NoSearch ==
    [pc |-> "idle", start |-> <<0, 0>>, goal |-> <<0, 0>>,
     walkable |-> [bounded |-> TRUE, blocked |-> {}],
     openSet |-> {}, closedSet |-> {}, cameFrom |-> <<>>, gScore |-> <<>>,
     path |-> <<>>]

InitHistory ==
    /\ started = FALSE
    /\ lastOp = "new"
    /\ lastErr = ""
    /\ lastAttack = NoAttack
    /\ lastArg = 0
    /\ lastRet = 0
    /\ logged = 0
    /\ advances = 0
    /\ search = NoSearch
    /\ HexSize = InitialHexSize
    /\ zooms = 0
    /\ frame = 0

Init ==
    /\ InitWorld(Skirmish)
    /\ NewBattleManager
    /\ InitHistory

InitDuel ==
    /\ \E r \in {DuelVictory, DuelDefeat} : InitWorld(r)
    /\ NewBattleManager
    /\ InitHistory

----------------------------------------------------------------------------
(* Operations of the scheduler *)

Orderings(S) ==
    { p \in [1..Cardinality(S) -> S] : \A e \in S : \E i \in DOMAIN p : p[i] = e }

\* the faces of the initiative d20 the battle is explored with: they give
\* every faction at the head of the order, and a tie
InitiativeFaces == {1, 3}

\* BattleManager.rollInitiative with the d20 faces d[e]
rollInitiative(m, d) ==
    [m EXCEPT !.initiative = [e \in DOMAIN @ |->
        [Roll |-> d[e] + DexMod(roster[e]), Went |-> FALSE]]]

\* less(i, j) of sortTurnOrder: initI.Roll > initJ.Roll
less(m, order, i, j) ==
    m.initiative[order[i]].Roll > m.initiative[order[j]].Roll

\* data.Swap(j, j - 1)
SwapDown(order, j) ==
    [order EXCEPT ![j] = order[j - 1], ![j - 1] = order[j]]

\* for j := i; j > a && less(j, j-1); j-- { swap(j, j-1) }
RECURSIVE SinkEntry(_, _, _)
SinkEntry(m, order, j) ==
    IF j > 1 /\ less(m, order, j, j - 1)
    THEN SinkEntry(m, SwapDown(order, j), j - 1)
    ELSE order

\* sort.Slice on a slice of at most 12 entries is an insertion sort:
\* for i := a + 1; i < b; i++ { ... }
RECURSIVE insertionSort(_, _, _)
insertionSort(m, order, i) ==
    IF i > Len(order) THEN order
    ELSE insertionSort(m, SinkEntry(m, order, i), i + 1)

\* BattleManager.sortTurnOrder: the entries are collected in the order of
\* the query, which the world does not fix, and then sorted
sortTurnOrder(m) ==
    { [m EXCEPT !.TurnOrder = insertionSort(m, p, 2)] : p \in Orderings(Entities) }

\* BattleManager.StartBattle
StartBattleOf(m, d) ==
    { markActiveCombatant([s EXCEPT !.State = "PlayerTurn"]) :
        s \in sortTurnOrder(rollInitiative([m EXCEPT !.State = "RollInitiative"], d)) }

\* the part of an AttackResult the battle history keeps
Verdict(res) ==
    [NoAttack EXCEPT !.Hit = res.Hit, !.Killed = res.Killed,
                     !.AttackerName = res.AttackerName,
                     !.TargetName = res.TargetName]

\* Game.Update, first frame: if !g.started { StartBattle; started = true }
StartBattle ==
    /\ ~started
    /\ \E d \in [Entities -> InitiativeFaces] :
         \E m \in StartBattleOf(Machine, d) : Apply(m)
    /\ started' = TRUE
    /\ lastOp' = "StartBattle"
    /\ lastErr' = ""
    /\ lastAttack' = NoAttack
    /\ advances' = 0
    /\ UNCHANGED <<roster, lastArg, lastRet, search, HexSize,
                 zooms, frame>>

\* QueueAction that queues the command before looking at the validation
QueueActionOf_QueuesInvalid(m, action) ==
    [m |-> [m EXCEPT !.PendingAction = action, !.State = "ExecuteAction"],
     err |-> Validate(action, m.health)]

\* BattleManager.QueueAction: the result is [m, err]
QueueActionOf(m, action) ==
    IF Validate(action, m.health) # ""
    THEN [m |-> m, err |-> Validate(action, m.health)]
    ELSE [m |-> [m EXCEPT !.PendingAction = action, !.State = "ExecuteAction"],
          err |-> ""]

QueueAction(action) ==
    /\ started
    /\ Round <= MaxRound
    /\ Apply(QueueActionOf(Machine, action).m)
    /\ lastOp' = "QueueAction"
    /\ lastErr' = QueueActionOf(Machine, action).err
    /\ lastAttack' = NoAttack
    /\ UNCHANGED <<roster, started, advances, lastArg, lastRet, search, HexSize,
                 zooms, frame>>

\* ExecutePendingAction that advances the turn whatever the phase
ExecutePendingActionOf_AlwaysAdvances(m, out) ==
    LET m1 == LogLines([m EXCEPT !.health = out.health], out.Logs)
    IN  NextTurnOf(CheckVictoryConditions([m1 EXCEPT !.PendingAction = NoAction]))

\* ExecutePendingAction that leaves the executed command pending
ExecutePendingActionOf_KeepsPending(m, out) ==
    LET m1 == LogLines([m EXCEPT !.health = out.health], out.Logs)
        m2 == CheckVictoryConditions(m1)
    IN  IF m2.State # "Victory" /\ m2.State # "Defeat" THEN NextTurnOf(m2) ELSE m2

\* BattleManager.ExecutePendingAction, for one outcome out of Execute
ExecutePendingActionOf(m, out) ==
    LET m1 == LogLines([m EXCEPT !.health = out.health], out.Logs)
        m2 == CheckVictoryConditions([m1 EXCEPT !.PendingAction = NoAction])
    IN  IF m2.State # "Victory" /\ m2.State # "Defeat" THEN NextTurnOf(m2) ELSE m2

ExecutePendingAction ==
    /\ started
    /\ Round <= MaxRound
    /\ logged < MaxLogged
    /\ lastOp' = IF PendingAction = NoAction THEN "ExecutePendingAction: nil"
                  ELSE "ExecutePendingAction"
    /\ lastErr' = ""
    /\ IF PendingAction = NoAction
       THEN /\ Apply(Machine)
            /\ lastAttack' = NoAttack
            /\ advances' = advances
       ELSE \E out \in Execute(PendingAction, health) :
            /\ Apply(ExecutePendingActionOf(Machine, out))
            /\ lastAttack' = Verdict(out.attack)
            /\ advances' = IF State' \in {"Victory", "Defeat"}
                           THEN advances ELSE advances + 1
    /\ UNCHANGED <<roster, started, lastArg, lastRet, search, HexSize,
                 zooms, frame>>

\* BattleManager.NextTurn called directly (the manual skip control)
NextTurn ==
    /\ started
    /\ Round <= MaxRound
    /\ Apply(NextTurnOf(Machine))
    /\ lastOp' = "NextTurn"
    /\ lastErr' = ""
    /\ lastAttack' = NoAttack
    /\ advances' = advances + 1
    /\ UNCHANGED <<roster, started, lastArg, lastRet, search, HexSize,
                 zooms, frame>>

Next ==
    \/ StartBattle
    \/ \E action \in Actions : QueueAction(action)
    \/ ExecutePendingAction
    \/ NextTurn

Spec == Init /\ [][Next]_vars

\* the same scheduler on the two duels
SpecDuel == InitDuel /\ [][Next]_vars

----------------------------------------------------------------------------
(* The combat functions applied to bounded inputs.  Entity 1 attacks        *)
(* entity 2; each behaviour applies one function once.                      *)

Shielded == [BaseAC |-> 20, MaxDex |-> 0]

AttackerScores == { <<3, 20>>, <<20, 3>>, <<7, 10>>, <<14, 14>> }  \* <<STR, DEX>>
Weapons == {Sword, Dagger, Claws}
TargetDexterity == {3, 10, 20}
Armors == {Robes, Natural, Plate, Shielded}
TargetHitPoints == {1, 7}

CombatRosters ==
    { (1 :> Combatant(TRUE, sc[1], sc[2], 10, w, Leather)) @@
      (2 :> Combatant(FALSE, 10, dex, hp, Sword, ar)) :
        sc \in AttackerScores, w \in Weapons,
        dex \in TargetDexterity, ar \in Armors, hp \in TargetHitPoints }

InitCombat ==
    /\ \E r \in CombatRosters : InitWorld(r)
    /\ NewBattleManager
    /\ InitHistory

UnchangedScheduler ==
    UNCHANGED <<roster, initiative, activeTurn, State, TurnOrder, CurrentIdx,
                Round, PendingAction, CombatLog, started, lastErr, logged,
                advances, search, HexSize, zooms, frame>>

\* stats.Modifier(s)
ApplyModifier ==
    /\ lastOp = "new"
    /\ \E s \in MinScore..MaxScore :
         /\ lastArg' = s
         /\ lastRet' = Modifier(s)
    /\ lastOp' = "Modifier"
    /\ UNCHANGED <<health, lastAttack>>
    /\ UnchangedScheduler

\* combat.PerformAttack(attacker, target)
ApplyPerformAttack ==
    /\ lastOp = "new"
    /\ \E dice \in AttackRolls(roster[1], roster[2]) :
         LET r == PerformAttack(1, 2, roster[1], roster[2], health[2],
                                dice[1], dice[2], dice[3])
         IN  /\ health' = [health EXCEPT ![2] = r.Current]
             /\ lastAttack' = r.res
             /\ lastArg' = dice
             /\ lastRet' = 0
    /\ lastOp' = "PerformAttack"
    /\ UnchangedScheduler

\* the dexterity modifiers of the ability scores explored
DexModifiers == { Modifier(s) : s \in MinScore..MaxScore }

\* armor.CalculateAC(dexMod)
ApplyCalculateAC ==
    /\ lastOp = "new"
    /\ \E a \in Armors, dexMod \in DexModifiers :
         /\ lastArg' = <<a, dexMod>>
         /\ lastRet' = CalculateAC(a, dexMod)
    /\ lastOp' = "CalculateAC"
    /\ UNCHANGED <<health, lastAttack>>
    /\ UnchangedScheduler

NextCombat ==
    \/ ApplyModifier
    \/ ApplyPerformAttack
    \/ ApplyCalculateAC

SpecCombat == InitCombat /\ [][NextCombat]_vars

----------------------------------------------------------------------------
(* The commands and the health component applied to bounded inputs: any     *)
(* sequence of Validate, Execute, Damage and Heal on the skirmish roster,    *)
(* starting from any hit points the combatants can have.                    *)

\* an entry whose entity was removed from the world: Valid() is false
Removed == 0

\* the attack commands Validate can be handed
AttackInputs ==
    { AttackAction(a, t) : a \in Entities \cup {Removed},
                           t \in Entities \cup {Removed} }

InitCommands ==
    /\ roster = Skirmish
    /\ \E h1 \in 0..Skirmish[1].Max, h2 \in 0..Skirmish[2].Max,
          h3 \in 0..Skirmish[3].Max :
            health = (1 :> h1) @@ (2 :> h2) @@ (3 :> h3)
    /\ initiative = [e \in DOMAIN Skirmish |-> [Roll |-> 0, Went |-> FALSE]]
    /\ activeTurn = {}
    /\ NewBattleManager
    /\ InitHistory

UnchangedBattle ==
    UNCHANGED <<roster, initiative, activeTurn, State, TurnOrder, CurrentIdx,
                Round, PendingAction, CombatLog, started, logged, advances,
                search, HexSize, zooms, frame>>

\* action.Validate(world)
ApplyValidate(action) ==
    /\ lastOp' = "Validate"
    /\ lastArg' = action
    /\ lastErr' = Validate(action, health)
    /\ lastRet' = 0
    /\ lastAttack' = NoAttack
    /\ UNCHANGED health
    /\ UnchangedBattle

\* action.Execute(world)
ApplyExecute(action) ==
    /\ \E out \in Execute(action, health) :
         /\ health' = out.health
         /\ lastRet' = [Success |-> out.Success, Logs |-> out.Logs,
                        Names |-> out.Names]
         /\ lastAttack' = Verdict(out.attack)
    /\ lastOp' = "Execute"
    /\ lastArg' = action
    /\ lastErr' = ""
    /\ UnchangedBattle

\* health.Damage(amount)
ApplyDamage(e, amount) ==
    /\ health' = [health EXCEPT ![e] = Damage(@, amount)]
    /\ lastOp' = "Damage"
    /\ lastArg' = <<e, amount>>
    /\ lastRet' = 0
    /\ lastErr' = ""
    /\ lastAttack' = NoAttack
    /\ UnchangedBattle

\* health.Heal(amount)
ApplyHeal(e, amount) ==
    /\ health' = [health EXCEPT ![e] = Heal(@, roster[e].Max, amount)]
    /\ lastOp' = "Heal"
    /\ lastArg' = <<e, amount>>
    /\ lastRet' = 0
    /\ lastErr' = ""
    /\ lastAttack' = NoAttack
    /\ UnchangedBattle

NextCommands ==
    \/ \E action \in AttackInputs \cup Actions : ApplyValidate(action)
    \/ \E action \in Actions : ApplyExecute(action)
    \/ \E e \in Entities, amount \in 0..MaxAmount : ApplyDamage(e, amount)
    \/ \E e \in Entities, amount \in 0..MaxAmount : ApplyHeal(e, amount)

SpecCommands == InitCommands /\ [][NextCommands]_vars

----------------------------------------------------------------------------
(* hex: HexDistance, GetNeighbors, FindPath.  A Hex is <<Q, R>>.            *)

HexDistance_NoDiagonal(a, b) ==
    LET dq == a[1] - b[1]
        dr == a[2] - b[2]
    IN  GoDiv(abs(dq) + abs(dr), 2)

\* HexDistance: max of a single argument is that argument
HexDistance(a, b) ==
    LET dq == a[1] - b[1]
        dr == a[2] - b[2]
    IN  GoDiv(abs(dq) + abs(dr) + abs(dq + dr), 2)

GetNeighbors(hex) ==
    << <<hex[1] + 1, hex[2]>>,
       <<hex[1] - 1, hex[2]>>,
       <<hex[1], hex[2] + 1>>,
       <<hex[1], hex[2] - 1>>,
       <<hex[1] + 1, hex[2] - 1>>,
       <<hex[1] - 1, hex[2] + 1>> >>

\* the board of Game.isValidHex, explored at grid size 1
Board == (-1..1) \X (-1..1)

\* the predicate handed to FindPath: Game.isValidHex with some hexes of the
\* board blocked, or, unbounded, a predicate that is true of every hex
isWalkable(hex, walkable) ==
    /\ walkable.bounded => hex \in Board
    /\ hex \notin walkable.blocked

\* reconstructPath without the final slices.Reverse
RECURSIVE reconstructPath_NotReversed(_, _)
reconstructPath_NotReversed(cameFrom, current) ==
    IF current \notin DOMAIN cameFrom THEN <<current>>
    ELSE <<current>> \o reconstructPath_NotReversed(cameFrom, cameFrom[current])

\* reconstructPath: the chain of predecessors from current, reversed
RECURSIVE reconstructPath(_, _)
reconstructPath(cameFrom, current) ==
    IF current \notin DOMAIN cameFrom THEN <<current>>
    ELSE Append(reconstructPath(cameFrom, cameFrom[current]), current)

\* FindPath up to the loop that refuses to search from an unwalkable start
EnterSearch_ChecksStart(start, goal, walkable) ==
    [pc |-> "loop", start |-> start, goal |-> goal, walkable |-> walkable,
     openSet |-> IF isWalkable(start, walkable)
                 THEN {[hex |-> start, fScore |-> 0]} ELSE {},
     closedSet |-> {}, cameFrom |-> <<>>, gScore |-> <<>>, path |-> <<>>]

\* FindPath up to the loop: empty maps, the start pushed with fScore 0
EnterSearch(start, goal, walkable) ==
    [pc |-> "loop", start |-> start, goal |-> goal, walkable |-> walkable,
     openSet |-> {[hex |-> start, fScore |-> 0]},
     closedSet |-> {}, cameFrom |-> <<>>, gScore |-> <<>>, path |-> <<>>]

\* gScore[hex], 0 for a missing key
Score(gScore, hex) == IF hex \in DOMAIN gScore THEN gScore[hex] ELSE 0

\* the neighbor loop's tests with a walkability test that only looks at the
\* bounds of the board
Admits_IgnoresBlocked(st, current, neighbor) ==
    /\ neighbor \in Board
    /\ neighbor \notin st.closedSet
    /\ \/ neighbor \notin DOMAIN st.gScore
       \/ Score(st.gScore, current) + 1 < st.gScore[neighbor]

\* the neighbor loop's tests: the neighbor is walkable, not closed, and
\* unscored or reached with a smaller tentative gScore
Admits(st, current, neighbor) ==
    /\ isWalkable(neighbor, st.walkable)
    /\ neighbor \notin st.closedSet
    /\ \/ neighbor \notin DOMAIN st.gScore
       \/ Score(st.gScore, current) + 1 < st.gScore[neighbor]

\* for _, neighbor := range GetNeighbors(current): the six neighbors are
\* distinct and none is current, so their updates do not depend on the order
Expand(st, current) ==
    LET tentativeGScore == Score(st.gScore, current) + 1
        admitted == { n \in { GetNeighbors(current)[i] : i \in 1..6 } :
                        Admits(st, current, n) }
    IN  [st EXCEPT
           !.cameFrom = [h \in DOMAIN @ \cup admitted |->
                            IF h \in admitted THEN current ELSE @[h]],
           !.gScore = [h \in DOMAIN @ \cup admitted |->
                          IF h \in admitted THEN tentativeGScore ELSE @[h]],
           !.openSet = @ \cup
               { [hex |-> n,
                  fScore |-> tentativeGScore + HexDistance(n, st.goal)] :
                 n \in admitted }]

\* a queue that returns its entries in no particular order
PopCandidates_AnyEntry(openSet) == openSet

\* heap.Pop: an entry of least fScore; which one among equals is the heap's
\* business
PopCandidates(openSet) ==
    { n \in openSet : \A k \in openSet : n.fScore <= k.fScore }

\* one pass through the loop of FindPath, or its exit: the set of results
Iterate(st) ==
    IF st.openSet = {}
    THEN { [st EXCEPT !.pc = "done", !.path = <<>>] }
    ELSE { LET current == n.hex
               st1     == [st EXCEPT !.openSet = @ \ {n}]
           IN  IF current = st.goal
               THEN [st1 EXCEPT !.pc = "done",
                                !.path = reconstructPath(st1.cameFrom, current)]
               ELSE Expand([st1 EXCEPT !.closedSet = @ \cup {current}],
                           current) :
           n \in PopCandidates(st.openSet) }

\* one start per class of hexes under the board's symmetries (q, r) ->
\* (-q, -r) and (q, r) -> (r, q): center, edge, and the two kinds of corner
StartHexes == { <<0, 0>>, <<-1, 0>>, <<1, 1>>, <<1, -1>> }

\* the walkability predicates explored: all but a few hexes of the board,
\* and every hex of the plane
BlockedSets == { B \in SUBSET Board : Cardinality(B) <= MaxBlocked }
WalkabilityPredicates ==
    { [bounded |-> TRUE, blocked |-> B] : B \in BlockedSets }
        \cup { [bounded |-> FALSE, blocked |-> {}] }

\* no call has been made yet
InitPath ==
    /\ InitWorld(Skirmish)
    /\ NewBattleManager
    /\ InitHistory

UnchangedWorld ==
    UNCHANGED <<roster, health, initiative, activeTurn, State, TurnOrder,
                CurrentIdx, Round, PendingAction, CombatLog, started, lastErr,
                lastAttack, lastArg, lastRet, logged, advances, HexSize,
                zooms, frame>>

\* FindPath(start, goal, isWalkable) is called and runs up to its loop
FindPathCall ==
    /\ search.pc = "idle"
    /\ \E start \in StartHexes, goal \in Board,
          walkable \in WalkabilityPredicates :
         search' = EnterSearch(start, goal, walkable)
    /\ lastOp' = "FindPath"
    /\ UnchangedWorld

\* FindPath, one iteration of the loop or the return
FindPathIterate ==
    /\ search.pc = "loop"
    /\ search' \in Iterate(search)
    /\ lastOp' = "FindPath"
    /\ UnchangedWorld

NextPath ==
    \/ FindPathCall
    \/ FindPathIterate

SpecPath == InitPath /\ [][NextPath]_vars

\* the loop is sequential code: it keeps running until it returns
SpecPathFair == SpecPath /\ WF_vars(NextPath)

----------------------------------------------------------------------------
(* hex.HexLine, hex.HasLineOfSight, hex.GetVisibleHexes and hex.HexDistance *)
(* applied to bounded inputs; each behaviour applies one function once.     *)

\* smallest value of the integer type of Hex.Q and Hex.R (int64, narrowed
\* here to IntBits bits) and the wrap-around of its addition
MinInt == -(2 ^ (IntBits - 1))
WrapInt(x) == ((x - MinInt) % (2 ^ IntBits)) + MinInt

\* int64(f) for f = NaN: Go leaves the result to the implementation; the
\* amd64 build yields the smallest int64, the arm64 build yields 0
NaNConversions == {0, MinInt}

\* int64(float64(k) * t) with t = float64(i) / float64(distance): the
\* conversion truncates toward zero; with distance = 0, t is 0/0 = NaN
Lerp(k, i, distance, nan) ==
    IF distance = 0 THEN nan ELSE GoDiv(k * i, distance)

HexLine(from, to, nan) ==
    LET distance == HexDistance(from, to)
    IN  [ j \in 1..(distance + 1) |->
            << WrapInt(from[1] + Lerp(to[1] - from[1], j - 1, distance, nan)),
               WrapInt(from[2] + Lerp(to[2] - from[2], j - 1, distance, nan)) >> ]

\* the hexes on which the blocking predicates explored are told apart
SightGrid == (-2..2) \X (-2..2)

\* isBlocking(h) of a predicate given by the hexes of SightGrid it reports
\* as blocking and by its answer for every other hex
Blocks(isBlocking, h) ==
    IF h \in SightGrid THEN h \in isBlocking.set ELSE isBlocking.rest

NeverBlocking == [set |-> {}, rest |-> FALSE]
AlwaysBlocking == [set |-> SightGrid, rest |-> TRUE]

\* the predicates explored: nothing blocks, one hex blocks, everything blocks
BlockingPredicates ==
    { [set |-> S, rest |-> b] :
        S \in {{}} \cup { {h} : h \in SightGrid } \cup {SightGrid},
        b \in BOOLEAN }

\* the loop returns at the first hex of the line that is the target or
\* that blocks, and returns true when it runs off the end of the line
HasLineOfSight(from, to, isBlocking, nan) ==
    LET line == HexLine(from, to, nan)
        stops == { j \in 1..Len(line) :
                     line[j] = to \/ Blocks(isBlocking, line[j]) }
    IN  IF stops = {} THEN TRUE
        ELSE LET first == CHOOSE j \in stops : \A k \in stops : j <= k
             IN  line[first] = to

\* the hexes of the square scanned by the two loops, in scan order
ScanSquare(origin, maxRange) ==
    LET side == 2 * maxRange + 1
    IN  [ k \in 1..(side * side) |->
            << origin[1] - maxRange + ((k - 1) \div side),
               origin[2] - maxRange + ((k - 1) % side) >> ]

GetVisibleHexes_NoRangeCheck(origin, maxRange, isBlocking, nan) ==
    LET visible(target) == HasLineOfSight(origin, target, isBlocking, nan)
    IN  SelectSeq(ScanSquare(origin, maxRange), visible)

GetVisibleHexes(origin, maxRange, isBlocking, nan) ==
    LET visible(target) ==
            /\ ~(HexDistance(origin, target) > maxRange)
            /\ HasLineOfSight(origin, target, isBlocking, nan)
    IN  SelectSeq(ScanSquare(origin, maxRange), visible)

\* hex.HasLineOfSight(from, to, isBlocking)
ApplyHasLineOfSight ==
    /\ lastOp = "new"
    /\ \E from \in SightGrid, to \in SightGrid,
          isBlocking \in BlockingPredicates, nan \in NaNConversions :
         /\ lastArg' = [from |-> from, to |-> to, isBlocking |-> isBlocking]
         /\ lastRet' = HasLineOfSight(from, to, isBlocking, nan)
    /\ lastOp' = "HasLineOfSight"
    /\ UNCHANGED <<health, lastAttack>>
    /\ UnchangedScheduler

\* hex.GetVisibleHexes(origin, maxRange, isBlocking)
ApplyGetVisibleHexes ==
    /\ lastOp = "new"
    /\ \E origin \in SightGrid, maxRange \in 0..MaxRange,
          isBlocking \in BlockingPredicates, nan \in NaNConversions :
         /\ lastArg' = [origin |-> origin, maxRange |-> maxRange,
                        isBlocking |-> isBlocking, nan |-> nan]
         /\ lastRet' = GetVisibleHexes(origin, maxRange, isBlocking, nan)
    /\ lastOp' = "GetVisibleHexes"
    /\ UNCHANGED <<health, lastAttack>>
    /\ UnchangedScheduler

\* hex.HexDistance on the pairs of three hexes
ApplyHexDistance ==
    /\ lastOp = "new"
    /\ \E a \in SightGrid, b \in SightGrid, c \in SightGrid :
         /\ lastArg' = <<a, b, c>>
         /\ lastRet' = [ab |-> HexDistance(a, b), ba |-> HexDistance(b, a),
                        bc |-> HexDistance(b, c), ac |-> HexDistance(a, c)]
    /\ lastOp' = "HexDistance"
    /\ UNCHANGED <<health, lastAttack>>
    /\ UnchangedScheduler

\* hex.HexLine(from, to)
ApplyHexLine ==
    /\ lastOp = "new"
    /\ \E from \in SightGrid, to \in SightGrid, nan \in NaNConversions :
         /\ lastArg' = [from |-> from, to |-> to]
         /\ lastRet' = HexLine(from, to, nan)
    /\ lastOp' = "HexLine"
    /\ UNCHANGED <<health, lastAttack>>
    /\ UnchangedScheduler

NextSight ==
    \/ ApplyHasLineOfSight
    \/ ApplyGetVisibleHexes
    \/ ApplyHexDistance
    \/ ApplyHexLine

SpecSight == InitPath /\ [][NextSight]_vars

----------------------------------------------------------------------------
(* hex.Layout: HexToPixel, PixelToHex, ZoomIn and ZoomOut *)

\* hexgrid.OrientationFlat: the forward matrix f and the backward matrix b
OrientationFlat ==
    [f |-> << RoundFloat(3, -1), FromInt(0), FDiv(Sqrt3, FromInt(2)), Sqrt3 >>,
     b |-> << FDiv(FromInt(2), FromInt(3)), FromInt(0),
              FDiv(FromInt(-1), FromInt(3)), FDiv(Sqrt3, FromInt(3)) >>]

\* Grid.HexCenter of a grid with origin (0, 0) and size (size, size)
HexCenter(hex, size) ==
    LET f == OrientationFlat.f
        q == FromInt(hex[1])
        r == FromInt(hex[2])
    IN  << FAdd(FMul(FAdd(FMul(f[1], q), FMul(f[2], r)), size), FromInt(0)),
           FAdd(FMul(FAdd(FMul(f[3], q), FMul(f[4], r)), size), FromInt(0)) >>

\* FractionalHex.ToHex: round the cube coordinates and recompute the one
\* that was rounded by the most
ToHex(q, r) ==
    LET s == FSub(FNeg(q), r)
        rq == FRound(q)
        rr == FRound(r)
        rs == FRound(s)
        qDiff == FAbs(FSub(FromInt(rq), q))
        rDiff == FAbs(FSub(FromInt(rr), r))
        sDiff == FAbs(FSub(FromInt(rs), s))
    IN  IF FGreater(qDiff, rDiff) /\ FGreater(qDiff, sDiff) THEN <<-rr - rs, rr>>
        ELSE IF FGreater(rDiff, sDiff) THEN <<rq, -rq - rs>>
        ELSE <<rq, rr>>

\* Grid.HexAt of the same grid
HexAt(point, size) ==
    LET b == OrientationFlat.b
        x == FDiv(FSub(point[1], FromInt(0)), size)
        y == FDiv(FSub(point[2], FromInt(0)), size)
    IN  ToHex(FAdd(FMul(b[1], x), FMul(b[2], y)),
              FAdd(FMul(b[3], x), FMul(b[4], y)))

HexToPixel(hex, size) ==
    LET point == HexCenter(hex, size)
    IN  << FAdd(FMul(point[1], IsoScaleX), OffsetX),
           FAdd(FMul(point[2], IsoScaleY), OffsetY) >>

PixelToHex(pixel, size) ==
    HexAt(<< FDiv(FSub(pixel[1], OffsetX), IsoScaleX),
             FDiv(FSub(pixel[2], OffsetY), IsoScaleY) >>, size)

\* the hexes of TestRoundTrip and those around them
LayoutGrid == (-3..3) \X (-3..3)

UnchangedCombat ==
    UNCHANGED <<roster, health, initiative, activeTurn, State, TurnOrder,
                CurrentIdx, Round, PendingAction, CombatLog, started, lastErr,
                lastAttack, logged, advances, search, frame>>

\* Layout.ZoomIn
ZoomIn ==
    /\ zooms < MaxZoom
    /\ HexSize' = FMul(HexSize, ZoomFactor)
    /\ zooms' = zooms + 1
    /\ lastOp' = "ZoomIn"
    /\ lastArg' = 0
    /\ lastRet' = 0
    /\ UnchangedCombat

\* Layout.ZoomOut
ZoomOut ==
    /\ zooms < MaxZoom
    /\ HexSize' = FDiv(HexSize, ZoomFactor)
    /\ zooms' = zooms + 1
    /\ lastOp' = "ZoomOut"
    /\ lastArg' = 0
    /\ lastRet' = 0
    /\ UnchangedCombat

\* one case of TestRoundTrip: HexToPixel, then PixelToHex of its result;
\* it is run once at each hex size reached
RoundTrip ==
    /\ lastOp # "RoundTrip"
    /\ \E h \in LayoutGrid :
         /\ lastArg' = h
         /\ lastRet' = PixelToHex(HexToPixel(h, HexSize), HexSize)
    /\ lastOp' = "RoundTrip"
    /\ UNCHANGED <<HexSize, zooms>>
    /\ UnchangedCombat

NextLayout ==
    \/ ZoomIn
    \/ ZoomOut
    \/ RoundTrip

SpecLayout == InitPath /\ [][NextLayout]_vars

----------------------------------------------------------------------------
(* The driver loop: Game.Update run once per frame *)

\* one player against two enemies, one of them with a single hit point
Ambush ==
    (1 :> Combatant(TRUE, 16, 12, 3, Sword, Leather)) @@
    (2 :> Combatant(FALSE, 8, 14, 1, Dagger, Robes)) @@
    (3 :> Combatant(FALSE, 14, 10, 4, Claws, Natural))

InitDriver ==
    /\ \E r \in {Skirmish, Ambush} : InitWorld(r)
    /\ NewBattleManager
    /\ InitHistory

\* systems.SelectBossTarget: a living player with the fewest hit points
\* (0 = nil); the query order decides between equals
SelectBossTarget(hp) ==
    LET targets == { e \in Entities : roster[e].player /\ ~IsDead(hp[e]) }
    IN  IF targets = {} THEN {0}
        ELSE { t \in targets : \A u \in targets : hp[t] <= hp[u] }

\* systems.CreateBossAction
CreateBossAction(hp, boss) ==
    { IF target = 0 THEN WaitAction(boss) ELSE AttackAction(boss, target) :
        target \in SelectBossTarget(hp) }

\* systems.ProcessPlayerInput: nil, an attack on the entity at the clicked
\* hex, or the wait key
ProcessPlayerInput(activeCombatant) ==
    {NoAction} \cup { AttackAction(activeCombatant, target) : target \in Entities }
               \cup { WaitAction(activeCombatant) }

\* *NewGame(): the world and the battle manager as constructed
NewGame ==
    [State |-> "BattleStart", TurnOrder |-> <<>>, CurrentIdx |-> 0,
     Round |-> 1, PendingAction |-> NoAction, CombatLog |-> <<>>,
     logged |-> 0,
     health |-> [e \in Entities |-> roster[e].Max],
     initiative |-> [e \in Entities |-> [Roll |-> 0, Went |-> FALSE]],
     activeTurn |-> {}]

\* what one branch of the switch leaves behind: the battle, the error of
\* QueueAction, the attack made, the NextTurn calls, whether the game was reset
Frame(m, err, attack, adv, reset) ==
    [m |-> m, err |-> err, attack |-> attack, adv |-> adv, reset |-> reset]

\* switch g.battle.State { ... } of Game.Update
SwitchState(m) ==
    IF m.State = "WaitingForPlayerInput" /\ GetActiveCombatant(m) # 0
    THEN { IF action = NoAction
           THEN Frame(m, "", NoAttack, 0, FALSE)
           ELSE Frame(QueueActionOf(m, action).m, QueueActionOf(m, action).err,
                      NoAttack, 0, FALSE) :
             action \in ProcessPlayerInput(GetActiveCombatant(m)) }
    ELSE IF m.State = "ExecuteAction" /\ m.PendingAction # NoAction
    THEN { Frame(ExecutePendingActionOf(m, out), "", Verdict(out.attack),
                 IF ExecutePendingActionOf(m, out).State \in {"Victory", "Defeat"}
                 THEN 0 ELSE 1,
                 FALSE) :
             out \in Execute(m.PendingAction, m.health) }
    ELSE IF m.State = "EnemyTurn" /\ GetActiveCombatant(m) # 0
    THEN { Frame(QueueActionOf(m, action).m, QueueActionOf(m, action).err,
                 NoAttack, 0, FALSE) :
             action \in CreateBossAction(m.health, GetActiveCombatant(m)) }
    ELSE IF m.State \in {"Victory", "Defeat"}
    THEN { Frame(m, "", NoAttack, 0, FALSE), Frame(NewGame, "", NoAttack, 0, TRUE) }
    ELSE { Frame(m, "", NoAttack, 0, FALSE) }

\* if !g.started { g.battle.StartBattle(g.world); g.started = true }
FirstFrame ==
    IF started THEN {Machine}
    ELSE UNION { StartBattleOf(Machine, d) : d \in [Entities -> InitiativeFaces] }

\* Game.Update
Update ==
    /\ Round <= MaxRound
    /\ logged < MaxLogged
    /\ \E m \in FirstFrame :
         \E f \in SwitchState(m) :
            /\ Apply(f.m)
            /\ lastErr' = f.err
            /\ lastAttack' = f.attack
            /\ advances' = IF f.reset \/ ~started THEN f.adv ELSE advances + f.adv
            /\ started' = ~f.reset
            /\ lastOp' = IF f.adv > 0 THEN "Update: NextTurn" ELSE "Update"
    /\ frame' = 1 - frame
    /\ UNCHANGED <<roster, lastArg, lastRet, search, HexSize, zooms>>

\* a frame in which the player supplies a command that QueueAction accepts
PlayerCommand ==
    /\ State = "WaitingForPlayerInput"
    /\ Update
    /\ State' = "ExecuteAction"

NextDriver ==
    \/ Update
    \/ NextTurn

\* the game loop calls Update for ever, and the player who is asked for a
\* command eventually gives a valid one
SpecDriver ==
    InitDriver /\ [][NextDriver]_vars /\ WF_vars(Update) /\ WF_vars(PlayerCommand)

----------------------------------------------------------------------------
(* StartBattle over the whole initiative die *)

\* a party of low dexterity (modifiers below zero) against a nimble enemy
Clumsy ==
    (1 :> Combatant(TRUE, 16, 7, 3, Sword, Leather)) @@
    (2 :> Combatant(TRUE, 8, 9, 2, Dagger, Robes)) @@
    (3 :> Combatant(FALSE, 14, 16, 4, Claws, Natural))

InitStart ==
    /\ \E r \in {Skirmish, Clumsy} : InitWorld(r)
    /\ NewBattleManager
    /\ InitHistory

\* StartBattle, the d20 of RollInitiative showing any of its faces
StartBattleAnyRoll ==
    /\ ~started
    /\ \E d \in [Entities -> 1..D20] :
         \E m \in StartBattleOf(Machine, d) : Apply(m)
    /\ started' = TRUE
    /\ lastOp' = "StartBattle"
    /\ lastErr' = ""
    /\ lastAttack' = NoAttack
    /\ advances' = 0
    /\ UNCHANGED <<roster, lastArg, lastRet, search, HexSize,
                 zooms, frame>>

SpecStart == InitStart /\ [][StartBattleAnyRoll]_vars

----------------------------------------------------------------------------
(* The combat log: AddLog called any number of times on a new battle *)

\* the messages told apart
Messages == {"hit", "miss"}

\* b.AddLog(message); lastArg keeps every message passed so far
ApplyAddLog ==
    /\ logged < MaxAppends
    /\ \E message \in Messages :
         /\ CombatLog' = AddLog(CombatLog, message)
         /\ lastArg' = IF lastOp = "new" THEN <<message>>
                        ELSE Append(lastArg, message)
    /\ logged' = logged + 1
    /\ lastOp' = "AddLog"
    /\ UNCHANGED <<roster, health, initiative, activeTurn, State, TurnOrder,
                   CurrentIdx, Round, PendingAction, started, lastErr,
                   lastAttack, lastRet, advances, search, HexSize, zooms,
                   frame>>

SpecLog == InitPath /\ [][ApplyAddLog]_vars

----------------------------------------------------------------------------
(* Properties of the scheduler *)

Terminal == {"Victory", "Defeat"}

\* the combatants of a faction that are alive, over the full turn order
AlivePlayers ==
    { i \in 1..Len(TurnOrder) : roster[TurnOrder[i]].player /\ health[TurnOrder[i]] > 0 }
AliveEnemies ==
    { i \in 1..Len(TurnOrder) : ~roster[TurnOrder[i]].player /\ health[TurnOrder[i]] > 0 }

\* C1: a QueueAction issued while a command is pending is rejected (returns
\* an error) and leaves phase, pending command, current index, round counter
\* and combat log as they were.
C1_SecondQueueRejected ==
    [][ (lastOp' = "QueueAction" /\ PendingAction # NoAction)
            => /\ lastErr' # ""
               /\ UNCHANGED <<State, PendingAction, CurrentIdx, Round, CombatLog>> ]_vars

\* C2: Victory and Defeat are terminal: once the phase is one of them, no
\* operation of the scheduler changes the phase.
C2_TerminalPhases ==
    [][ (State \in Terminal) => (State' = State) ]_vars

\* C3: right after ExecutePendingAction has executed a command the phase is
\* Defeat exactly when no player-faction combatant of the turn order is alive,
\* Victory exactly when no enemy-faction combatant is alive and some
\* player-faction combatant is, and not terminal when both factions are alive.
C3_VictoryDefeatEvaluation ==
    lastOp = "ExecutePendingAction" =>
        /\ (State = "Defeat") <=> (AlivePlayers = {})
        /\ (State = "Victory") <=> (AliveEnemies = {} /\ AlivePlayers # {})
        /\ (AlivePlayers # {} /\ AliveEnemies # {}) => State \notin Terminal

C3_Witness ==
    /\ lastOp = "ExecutePendingAction"
    /\ State = "Defeat"
    /\ AliveEnemies # {}

\* C4: when StartBattle returns, the phase follows the faction tag of the
\* combatant at the current index: WaitingForPlayerInput for a player,
\* EnemyTurn otherwise.
C4_StartPhaseFollowsFaction ==
    lastOp = "StartBattle" =>
        State = IF roster[TurnOrder[CurrentIdx + 1]].player
                THEN "WaitingForPlayerInput" ELSE "EnemyTurn"

\* C5: counted from the start of the battle (index 0, no flag set), every
\* len(TurnOrder) turn advances raise the round counter by exactly one and end
\* at index 0 with all "went" flags reset; an advance that does not run off
\* the end of the order leaves the counter alone.
C5_FullRound ==
    (started /\ Len(TurnOrder) > 0) =>
        /\ Round = 1 + (advances \div Len(TurnOrder))
        /\ CurrentIdx = advances % Len(TurnOrder)
        /\ (advances % Len(TurnOrder) = 0)
               => \A i \in 1..Len(TurnOrder) : ~initiative[TurnOrder[i]].Went

C5_Witness ==
    /\ started
    /\ advances = Len(TurnOrder)
    /\ Round = 2
    /\ CurrentIdx = 0

\* C6: in the duel of a player (100 HP, AC 10) against an enemy (1 HP) every
\* executed attack of the player that hits leaves the phase Victory; with the
\* hit points reversed every executed attack of the enemy that hits leaves
\* the phase Defeat.
C6_DuelEnds ==
    (lastOp = "ExecutePendingAction" /\ lastAttack.Hit) =>
        /\ (roster = DuelVictory /\ roster[lastAttack.AttackerName].player)
               => State = "Victory"
        /\ (roster = DuelDefeat /\ ~roster[lastAttack.AttackerName].player)
               => State = "Defeat"

C6_Witness ==
    /\ roster = DuelDefeat
    /\ lastOp = "ExecutePendingAction"
    /\ lastAttack.Hit
    /\ ~roster[lastAttack.AttackerName].player
    /\ health[1] = 0

\* C14: QueueAction accepts a command only if its validation succeeds; a
\* command whose validation fails is reported as an error and changes
\* nothing: phase, pending command, current index, round counter and all hit
\* points are as before, and every command that is valid is still accepted
\* by the next QueueAction.
C14_InvalidCommandNotFatal ==
    [][ lastOp' = "QueueAction" =>
          /\ (lastErr' = "") => Validate(PendingAction', health) = ""
          /\ (lastErr' # "") =>
                 /\ UNCHANGED <<State, PendingAction, CurrentIdx, Round, health>>
                 /\ \A a \in Actions :
                        Validate(a, health') = "" =>
                            QueueActionOf(Machine', a).err = "" ]_vars

\* a dead combatant's attack was refused while the battle goes on
C14_Witness ==
    /\ lastOp = "QueueAction"
    /\ lastErr = "attacker is dead"
    /\ State \notin Terminal
    /\ PendingAction = NoAction
    /\ \E a \in Actions : Validate(a, health) = ""

----------------------------------------------------------------------------
(* Properties of the combat functions *)

\* the ability modifier as the specification defines it
FloorModifier(score) == FloorDiv(score - 10, 2)

\* the score the attacker's weapon keys off
RelevantScore(c) ==
    IF c.weapon.UsesStat = "STR" THEN c.Strength ELSE c.Dexterity

\* C7: Modifier(s) = floor((s - 10) / 2), rounding toward negative infinity,
\* for every ability score s.
C7_ModifierIsFloor ==
    lastOp = "Modifier" => lastRet = FloorModifier(lastArg)

\* C8: a natural 1 is a miss whatever the bonus and the target's AC, with
\* zero damage and the target's hit points unchanged; a natural 20 is a hit
\* whatever the AC and sets the critical flag.
C8_NaturalOneAndTwenty ==
    [][ lastOp' = "PerformAttack" =>
          /\ (lastArg'[1] = 1) =>
                 /\ ~lastAttack'.Hit
                 /\ lastAttack'.Damage = 0
                 /\ health' = health
          /\ (lastArg'[1] = 20) =>
                 /\ lastAttack'.Hit
                 /\ lastAttack'.Critical ]_vars

\* a natural 1 whose total would have met the target's AC
C8_Witness ==
    /\ lastOp = "PerformAttack"
    /\ lastArg[1] = 1
    /\ lastAttack.TotalAttack >= lastAttack.TargetAC
    /\ ~lastAttack.Hit

\* C9: for a d20 roll r in 2..19 the attack hits iff r + attack bonus >= target
\* AC, the attack bonus being the modifier of the ability the weapon keys off
\* plus the proficiency bonus 2, and the reported total is r + attack bonus.
C9_HitIffTotalMeetsAC ==
    (lastOp = "PerformAttack" /\ lastArg[1] \in 2..19) =>
        LET bonus == FloorModifier(RelevantScore(roster[1])) + 2
        IN  /\ lastAttack.TotalAttack = lastArg[1] + bonus
            /\ lastAttack.Hit <=> (lastArg[1] + bonus >= lastAttack.TargetAC)

\* C10: on every hit the damage is max(1, S + m): S the sum of the weapon's N
\* dice (N <= S <= N*D), rolled a second time and added on a critical hit, m
\* the modifier of the ability the weapon keys off, added once.
C10_DamageOnHit ==
    (lastOp = "PerformAttack" /\ lastAttack.Hit) =>
        LET w == roster[1].weapon
            m == FloorModifier(RelevantScore(roster[1]))
            S == lastArg[2] + lastArg[3]
            N == IF lastAttack.Critical THEN 2 * w.DamageDice ELSE w.DamageDice
        IN  /\ N <= S /\ S <= N * w.DamageDie
            /\ lastAttack.Damage = Max2(1, S + m)
            /\ lastAttack.Damage >= 1

\* C11: a hit dealing damage d leaves the target at max(0, previous - d) hit
\* points and sets the killed flag exactly when that is 0; a miss leaves the
\* hit points unchanged and the flag unset.  A target at 1 hit point that is
\* hit ends at 0 and is flagged dead.
C11_DamageApplied ==
    [][ lastOp' = "PerformAttack" =>
          /\ lastAttack'.Hit =>
                 /\ lastAttack'.Damage >= 1
                 /\ health'[2] = Max2(0, health[2] - lastAttack'.Damage)
                 /\ lastAttack'.Killed <=> (health'[2] = 0)
                 /\ (health[2] = 1) => (health'[2] = 0 /\ lastAttack'.Killed)
          /\ ~lastAttack'.Hit =>
                 /\ health' = health
                 /\ ~lastAttack'.Killed ]_vars

\* a target at 1 hit point is hit by more damage than it has hit points
C11_Witness ==
    /\ lastOp = "PerformAttack"
    /\ lastAttack.Hit
    /\ roster[2].Max = 1
    /\ lastAttack.Damage > 1
    /\ health[2] = 0
    /\ lastAttack.Killed

\* C15: CalculateAC returns base + dexMod when the dexterity cap is unlimited,
\* base + min(dexMod, cap) when the cap is positive, and base when the cap is
\* zero: base 10 unlimited with modifier 3 gives 13, base 13 cap 2 gives 15
\* with modifier 4 and 14 with modifier 1, base 16 cap 0 with 3 gives 16.
C15_ArmorClass ==
    lastOp = "CalculateAC" =>
        LET a == lastArg[1]
            m == lastArg[2]
        IN  /\ (a.MaxDex = Unlimited) => lastRet = a.BaseAC + m
            /\ (a.MaxDex > 0) => lastRet = a.BaseAC + Min2(m, a.MaxDex)
            /\ (a.MaxDex = 0) => lastRet = a.BaseAC
            /\ (a = Robes /\ m = 3) => lastRet = 13
            /\ (a = Natural /\ m = 4) => lastRet = 15
            /\ (a = Natural /\ m = 1) => lastRet = 14
            /\ (a = Plate /\ m = 3) => lastRet = 16

\* medium armor with a modifier above its cap
C15_Witness ==
    /\ lastOp = "CalculateAC"
    /\ lastArg[1] = Natural
    /\ lastArg[2] = 4
    /\ lastRet = 15

----------------------------------------------------------------------------
(* Properties of the commands and of the health component *)

\* a live reference to a combatant that is not dead
LiveAndAlive(e) == Valid(e) /\ health[e] > 0

\* C12: AttackAction.Validate succeeds iff the attacker reference is live, the
\* attacker is not dead, the target reference is live, the target is not dead
\* and attacker and target differ; a dead attacker, a dead target and a
\* self-attack each yield an error.
C12_AttackValidate ==
    (lastOp = "Validate" /\ lastArg.kind = "Attack") =>
        LET a == lastArg.Actor
            t == lastArg.Target
        IN  /\ (lastErr = "") <=> (LiveAndAlive(a) /\ LiveAndAlive(t) /\ a # t)
            /\ (Valid(a) /\ health[a] = 0) => lastErr # ""
            /\ (Valid(t) /\ health[t] = 0) => lastErr # ""
            /\ (a = t) => lastErr # ""

\* a living combatant attacking itself is refused
C12_Witness ==
    /\ lastOp = "Validate"
    /\ lastArg.kind = "Attack"
    /\ lastArg.Actor = lastArg.Target
    /\ LiveAndAlive(lastArg.Actor)
    /\ lastErr = "cannot attack self"

\* C13: WaitAction.Validate succeeds for every actor, and WaitAction.Execute
\* always succeeds, changes no hit points and no other combat data, and
\* produces exactly one log line, naming the actor.
C13_WaitIsNoOp ==
    [][ /\ (lastOp' = "Validate" /\ lastArg'.kind = "Wait") => lastErr' = ""
        /\ (lastOp' = "Execute" /\ lastArg'.kind = "Wait") =>
               /\ lastRet'.Success
               /\ lastRet'.Logs = 1
               /\ lastRet'.Names = {lastArg'.Actor}
               /\ UNCHANGED <<health, roster, initiative, activeTurn>> ]_vars

\* a dead actor waited
C13_Witness ==
    /\ lastOp = "Execute"
    /\ lastArg.kind = "Wait"
    /\ health[lastArg.Actor] = 0
    /\ lastRet.Success
    /\ lastRet.Names = {lastArg.Actor}

\* C16: every combatant's hit points stay within 0..Max under any sequence of
\* attacks, Damage and Heal, and a combatant is dead exactly when its hit
\* points are 0.
C16_HitPointsInRange ==
    \A e \in Entities :
        /\ 0 <= health[e]
        /\ health[e] <= roster[e].Max
        /\ IsDead(health[e]) <=> (health[e] = 0)

\* a heal larger than the combatant's maximum was capped
C16_Witness ==
    /\ lastOp = "Heal"
    /\ lastArg[2] > roster[lastArg[1]].Max
    /\ health[lastArg[1]] = roster[lastArg[1]].Max

\* C17: an executed attack changes nothing but the target's current hit
\* points: the attacker's hit points, and every combatant's maximum, stats,
\* weapon and armor, are as before.
C17_AttackFrame ==
    [][ (lastOp' = "Execute" /\ lastArg'.kind = "Attack" /\ lastRet'.Success) =>
          /\ roster' = roster
          /\ \A e \in Entities : e # lastArg'.Target => health'[e] = health[e]
          /\ UNCHANGED <<initiative, activeTurn>> ]_vars

\* an attack that hit and hurt its target
C17_Witness ==
    /\ lastOp = "Execute"
    /\ lastArg.kind = "Attack"
    /\ lastAttack.Hit
    /\ health[lastArg.Target] < roster[lastArg.Target].Max
    /\ health[lastArg.Actor] = roster[lastArg.Actor].Max

----------------------------------------------------------------------------
(* Properties of FindPath *)

\* the hexes that can be reached from the hexes of S over walkable hexes
RECURSIVE WalkableFrom(_, _)
WalkableFrom(S, walkable) ==
    LET T == S \cup { n \in Board : /\ isWalkable(n, walkable)
                                     /\ \E h \in S : HexDistance(h, n) = 1 }
    IN  IF T = S THEN S ELSE WalkableFrom(T, walkable)

Reachable == search.goal \in WalkableFrom({search.start}, search.walkable)

\* C18: a non-empty path returned by FindPath begins with start, ends with
\* goal, has consecutive hexes at hex distance exactly 1, and every hex after
\* the first is walkable.
C18_PathWellFormed ==
    (search.pc = "done" /\ search.path # <<>>) =>
        LET path == search.path
        IN  /\ path[1] = search.start
            /\ path[Len(path)] = search.goal
            /\ \A i \in 1..(Len(path) - 1) : HexDistance(path[i], path[i + 1]) = 1
            /\ \A i \in 2..Len(path) : isWalkable(path[i], search.walkable)

\* a path that had to go around blocked hexes
C18_Witness ==
    /\ search.pc = "done"
    /\ Len(search.path) > HexDistance(search.start, search.goal) + 1

\* C19: FindPath(s, s, p) returns exactly [s], also when p rejects s and all
\* its neighbors.
C19_StartIsGoal ==
    (search.pc = "done" /\ search.start = search.goal) =>
        search.path = <<search.start>>

\* the start is the goal, and it and all its neighbors are unwalkable
C19_Witness ==
    /\ search.pc = "done"
    /\ search.start = search.goal
    /\ ~isWalkable(search.start, search.walkable)
    /\ \A i \in 1..6 : ~isWalkable(GetNeighbors(search.start)[i], search.walkable)
    /\ search.path = <<search.start>>

\* C20: FindPath terminates; when the goal cannot be reached from start over
\* walkable hexes it returns the empty path with the open set empty, and
\* when the goal can be reached it returns a non-empty path.
C20_EmptyIffUnreachable ==
    /\ [](search.pc = "done" =>
             /\ (search.path = <<>>) <=> ~Reachable
             /\ (search.path = <<>>) => search.openSet = {})
    /\ <>(search.pc = "done")

\* the goal is walkable but walled off, and the search gave up
C20_Witness ==
    /\ search.pc = "done"
    /\ isWalkable(search.goal, search.walkable)
    /\ search.start # search.goal
    /\ search.path = <<>>
    /\ search.closedSet # {search.start}

----------------------------------------------------------------------------
(* Properties of line of sight, visibility and distance *)

\* C21: HasLineOfSight(a, a, isBlocking) is true for every hex a and every
\* blocking predicate, also one that reports every hex as blocking.
C21_SelfIsVisible ==
    (lastOp = "HasLineOfSight" /\ lastArg.from = lastArg.to) => lastRet = TRUE

\* squared Euclidean distance, up to a constant factor, between hex centres
\* whose axial coordinates differ by <<dq, dr>>
CentreNorm(dq, dr) == dq * dq + dq * dr + dr * dr

\* h lies on the straight line strictly between from and to: one of the
\* points dividing the segment between the two centres into
\* distance(from, to) equal parts lies inside hex h, that is, nearer to the
\* centre of h than to the centre of each neighbor of h
OnStraightLine(from, to, h) ==
    LET n == HexDistance(from, to)
        off(g, i) == CentreNorm(n * g[1] - (n * from[1] + i * (to[1] - from[1])),
                                n * g[2] - (n * from[2] + i * (to[2] - from[2])))
    IN  /\ h # from
        /\ h # to
        /\ \E i \in 1..(n - 1) :
             \A k \in 1..6 : off(h, i) < off(GetNeighbors(h)[k], i)

\* C22: when a blocking hex lies on the straight hex line strictly between
\* the endpoints, HasLineOfSight is false; when no hex blocks at all, it is
\* true for every pair of hexes.
C22_BlockedLine ==
    lastOp = "HasLineOfSight" =>
        /\ (\E h \in lastArg.isBlocking.set :
               OnStraightLine(lastArg.from, lastArg.to, h)) => lastRet = FALSE
        /\ lastArg.isBlocking = NeverBlocking => lastRet = TRUE

\* C23: GetVisibleHexes returns, each exactly once, precisely the hexes h
\* with distance(origin, h) <= maxRange for which HasLineOfSight(origin, h,
\* isBlocking) holds; when no hex blocks these are all 1 + 3n(n+1) hexes
\* within range n, the origin among them.
C23_VisibleHexes ==
    lastOp = "GetVisibleHexes" =>
        LET origin == lastArg.origin
            n == lastArg.maxRange
            around == ((origin[1] - n - 1)..(origin[1] + n + 1)) \X
                      ((origin[2] - n - 1)..(origin[2] + n + 1))
            expected == { h \in around :
                            /\ HexDistance(origin, h) <= n
                            /\ HasLineOfSight(origin, h, lastArg.isBlocking,
                                              lastArg.nan) }
        IN  /\ \A i, j \in 1..Len(lastRet) : i # j => lastRet[i] # lastRet[j]
            /\ { lastRet[i] : i \in 1..Len(lastRet) } = expected
            /\ \A i \in 1..Len(lastRet) : HexDistance(origin, lastRet[i]) <= n
            /\ lastArg.isBlocking = NeverBlocking =>
                   /\ Len(lastRet) = 1 + 3 * n * (n + 1)
                   /\ \E i \in 1..Len(lastRet) : lastRet[i] = origin

\* one hex blocks, and it hides some but not all hexes within range 2
C23_Witness ==
    /\ lastOp = "GetVisibleHexes"
    /\ lastArg.maxRange = 2
    /\ Cardinality(lastArg.isBlocking.set) = 1
    /\ lastArg.isBlocking.rest = FALSE
    /\ Len(lastRet) > 1
    /\ Len(lastRet) < 1 + 3 * 2 * (2 + 1)

\* C24: HexDistance is half the cube-coordinate Manhattan distance,
\* (|dq| + |dr| + |dq + dr|) / 2, and a metric: symmetric, zero exactly
\* between a hex and itself, and subject to the triangle inequality.
C24_DistanceIsMetric ==
    lastOp = "HexDistance" =>
        LET a == lastArg[1]
            b == lastArg[2]
            dq == a[1] - b[1]
            dr == a[2] - b[2]
        IN  /\ 2 * lastRet.ab = abs(dq) + abs(dr) + abs(dq + dr)
            /\ lastRet.ab = lastRet.ba
            /\ (lastRet.ab = 0) <=> (a = b)
            /\ lastRet.ac <= lastRet.ab + lastRet.bc

\* three distinct hexes that are not in line
C24_Witness ==
    /\ lastOp = "HexDistance"
    /\ lastRet.ab >= 2
    /\ lastRet.bc >= 2
    /\ lastRet.ac >= 1
    /\ lastRet.ac < lastRet.ab + lastRet.bc

----------------------------------------------------------------------------
(* Properties of the layout *)

\* C25: PixelToHex(HexToPixel(h)) is h for every hex h of the grid, also
\* after any number of ZoomIn and ZoomOut calls.
C25_RoundTrip ==
    lastOp = "RoundTrip" => lastRet = lastArg

----------------------------------------------------------------------------
(* Further properties of the scheduler *)

\* C26: once StartBattle has rolled initiative and sorted, no operation
\* changes the turn-order sequence, removes a combatant from it, or changes
\* a combatant's initiative value.
C26_TurnOrderFixed ==
    [][ started =>
          /\ TurnOrder' = TurnOrder
          /\ \A e \in Entities : initiative'[e].Roll = initiative[e].Roll ]_vars

\* a second round has begun with a dead combatant still in the turn order
C26_Witness ==
    /\ started
    /\ Round = 2
    /\ \E i \in 1..Len(TurnOrder) : IsDead(health[TurnOrder[i]])
    /\ Len(TurnOrder) = Cardinality(Entities)

\* C27: ExecutePendingAction clears the pending command and appends the
\* command's log lines; when it leaves the battle in Victory or Defeat the
\* current index, the round counter and the acted flags are as before the
\* call, and otherwise the turn is advanced exactly once.
C27_AdvanceUnlessTerminal ==
    [][ lastOp' = "ExecutePendingAction" =>
          LET cur == TurnOrder[CurrentIdx + 1]
              wraps == CurrentIdx + 1 = Len(TurnOrder)
              lines == IF PendingAction.kind = "Attack" THEN AttackLogs
                       ELSE WaitLogs
          IN  /\ PendingAction' = NoAction
              /\ logged' >= logged + lines
              /\ \A k \in 1..lines :
                     \E i \in DOMAIN CombatLog' :
                         CombatLog'[i] = [n |-> logged + k, text |-> "result"]
              /\ IF State' \in Terminal
                 THEN /\ CurrentIdx' = CurrentIdx
                      /\ Round' = Round
                      /\ \A e \in Entities :
                             initiative'[e].Went = initiative[e].Went
                 ELSE /\ CurrentIdx' = (IF wraps THEN 0 ELSE CurrentIdx + 1)
                      /\ Round' = (IF wraps THEN Round + 1 ELSE Round)
                      /\ \A e \in Entities :
                             initiative'[e].Went =
                                 (~wraps /\ (e = cur \/ initiative[e].Went)) ]_vars

\* a killing attack by a combatant that is not first in the order ended the
\* battle in Victory
C27_Witness ==
    /\ lastOp = "ExecutePendingAction"
    /\ State = "Victory"
    /\ lastAttack.Killed
    /\ CurrentIdx > 0
    /\ PendingAction = NoAction

\* C28: in every reachable state a command is pending exactly when the
\* phase is ExecuteAction.
C28_PendingIffExecuteAction ==
    (PendingAction # NoAction) <=> (State = "ExecuteAction")

\* C29: the phase becomes ExecuteAction only from WaitingForPlayerInput or
\* EnemyTurn.
C29_ExecuteActionOnlyFromTurn ==
    [][ (State' = "ExecuteAction" /\ State # "ExecuteAction") =>
          State \in {"WaitingForPlayerInput", "EnemyTurn"} ]_vars

----------------------------------------------------------------------------
(* Properties of the driver loop *)

\* C30: under the driver loop a started battle never gets stuck: from every
\* phase that is not terminal it eventually reaches the next combatant's
\* turn (a NextTurn call is made) or a terminal phase.
C30_NeverStuck ==
    (/\ started
     /\ State \notin Terminal
     /\ Round <= MaxRound
     /\ logged < MaxLogged) ~> (\/ State \in Terminal
                                \/ lastOp \in {"NextTurn", "Update: NextTurn"})

----------------------------------------------------------------------------
(* Further properties of FindPath *)

\* C31: during one FindPath call a node is expanded at most once: no hex is
\* popped from the open set and has its neighbors examined a second time.
C31_ExpandedOnce ==
    [][ (search.pc = "loop" /\ search'.pc = "loop") =>
          \A n \in search.openSet \ search'.openSet :
              n.hex \notin search.closedSet ]_vars

\* the hexes among which the routes are sought: the board and two more rings
Plane == (-3..3) \X (-3..3)

\* the least number of steps of a route from a hex of S, reached in k steps,
\* to goal over walkable hexes (-1 when there is none), by breadth-first
\* search
RECURSIVE StepsFrom(_, _, _, _)
StepsFrom(S, k, goal, walkable) ==
    IF goal \in S THEN k
    ELSE LET T == S \cup { n \in Plane : /\ isWalkable(n, walkable)
                                          /\ \E h \in S : HexDistance(h, n) = 1 }
         IN  IF T = S THEN -1 ELSE StepsFrom(T, k + 1, goal, walkable)

\* C32: the number of steps len(path) - 1 of a non-empty path returned by
\* FindPath is the minimum over all routes from start to goal through
\* walkable hexes, whichever way the heap breaks ties; when every hex is
\* walkable it is HexDistance(start, goal).
C32_ShortestPath ==
    (search.pc = "done" /\ search.path # <<>>) =>
        /\ Len(search.path) - 1 =
               StepsFrom({search.start}, 0, search.goal, search.walkable)
        /\ (~search.walkable.bounded) =>
               Len(search.path) - 1 = HexDistance(search.start, search.goal)

\* the shortest route is a detour of two steps or more, and the search has
\* expanded a hex that is not on the path it returns
C32_Witness ==
    /\ search.pc = "done"
    /\ Len(search.path) - 1 >= HexDistance(search.start, search.goal) + 2
    /\ \E h \in search.closedSet :
           \A i \in 1..Len(search.path) : search.path[i] # h

----------------------------------------------------------------------------
(* Further properties of line of sight *)

\* the predicate isBlocking with its answers for the hexes from and to
\* replaced by bf and bt
WithEndpoints(isBlocking, from, to, bf, bt) ==
    [isBlocking EXCEPT !.set = (@ \ {from, to})
                                 \cup (IF bf THEN {from} ELSE {})
                                 \cup (IF bt THEN {to} ELSE {})]

\* C33: for from # to the result of HasLineOfSight(from, to, isBlocking)
\* does not depend on whether from and to themselves are blocking: only the
\* hexes strictly between the endpoints can block sight.
C33_EndpointsDoNotBlock ==
    (lastOp = "HasLineOfSight" /\ lastArg.from # lastArg.to) =>
        \A bf, bt \in BOOLEAN :
            lastRet = HasLineOfSight(lastArg.from, lastArg.to,
                                     WithEndpoints(lastArg.isBlocking, lastArg.from,
                                                   lastArg.to, bf, bt),
                                     0)

\* x is an integer nearest to the fraction n / d (d > 0); of two integers
\* equally near, either
NearestTo(x, n, d) == 2 * abs(d * x - n) <= d

\* C34: HexLine(from, to) yields exactly distance(from, to) + 1 hexes, the
\* first equal to from and the last equal to to, the i-th being the linear
\* interpolation from + (to - from) * i / distance with each axial coordinate
\* rounded to the nearest integer; for from = to it yields the single hex
\* from.
C34_LineInterpolation ==
    lastOp = "HexLine" =>
        LET from == lastArg.from
            to == lastArg.to
            distance == HexDistance(from, to)
        IN  /\ Len(lastRet) = distance + 1
            /\ lastRet[1] = from
            /\ lastRet[Len(lastRet)] = to
            /\ \A i \in 0..distance : \A c \in 1..2 :
                   distance > 0 =>
                       NearestTo(lastRet[i + 1][c] - from[c],
                                 (to[c] - from[c]) * i, distance)
            /\ from = to => lastRet = <<from>>

\* C35: consecutive hexes of HexLine(from, to) are equal or adjacent, and
\* every hex of the line is within distance(from, to) of from: the walk of
\* HasLineOfSight visits a connected chain of hexes.  Stated for from # to;
\* the line from a hex to itself is the subject of C21 and C34.
C35_LineConnected ==
    (lastOp = "HexLine" /\ lastArg.from # lastArg.to) =>
        /\ \A i \in 1..(Len(lastRet) - 1) :
               HexDistance(lastRet[i], lastRet[i + 1]) <= 1
        /\ \A i \in 1..Len(lastRet) :
               HexDistance(lastArg.from, lastRet[i])
                   <= HexDistance(lastArg.from, lastArg.to)

----------------------------------------------------------------------------
(* Properties of the turn order *)

\* C36: in a started battle, after any sequence of turn advances, the acted
\* flag of the combatant at position i of the turn order is true exactly
\* when i is less than the current index.
C36_ActedBeforeCurrent ==
    started =>
        \A i \in 0..(Len(TurnOrder) - 1) :
            initiative[TurnOrder[i + 1]].Went <=> (i < CurrentIdx)

\* the last combatant of the order is active in the second round
C36_Witness ==
    /\ started
    /\ Round = 2
    /\ CurrentIdx = Len(TurnOrder) - 1
    /\ CurrentIdx > 0
    /\ initiative[TurnOrder[1]].Went
    /\ ~initiative[TurnOrder[Len(TurnOrder)]].Went

\* C37: after StartBattle the turn order contains every combatant exactly
\* once and is sorted by initiative descending, ties in either order; each
\* initiative is a d20 roll in 1..20 plus the combatant's dexterity modifier.
C37_SortedByInitiative ==
    lastOp = "StartBattle" =>
        /\ Len(TurnOrder) = Cardinality(Entities)
        /\ \A e \in Entities : \E i \in 1..Len(TurnOrder) : TurnOrder[i] = e
        /\ \A i, j \in 1..Len(TurnOrder) :
               i < j => initiative[TurnOrder[i]].Roll >= initiative[TurnOrder[j]].Roll
        /\ \A e \in Entities :
               initiative[e].Roll - FloorModifier(roster[e].Dexterity) \in 1..D20

\* C38: in every reachable state CurrentIdx is in 0..len(TurnOrder); after
\* every NextTurn on a non-empty turn order CurrentIdx < len(TurnOrder), so
\* GetActiveCombatant returns a combatant, and each advance moves the active
\* position from i to (i + 1) mod len(TurnOrder).
C38_IndexInRange ==
    /\ [](/\ CurrentIdx \in 0..Len(TurnOrder)
          /\ (started /\ Len(TurnOrder) > 0) =>
                 /\ CurrentIdx < Len(TurnOrder)
                 /\ GetActiveCombatant(Machine) = TurnOrder[CurrentIdx + 1])
    /\ [][ (started /\ advances' = advances + 1) =>
             CurrentIdx' = (CurrentIdx + 1) % Len(TurnOrder) ]_vars

\* a manual NextTurn has wrapped the index from the last position to the
\* first
C38_Witness ==
    /\ lastOp = "NextTurn"
    /\ advances > 0
    /\ CurrentIdx = 0
    /\ GetActiveCombatant(Machine) = TurnOrder[1]

----------------------------------------------------------------------------
(* Properties of the combat log *)

\* C39: the combat log is bounded: after any sequence of operations it
\* holds at most its capacity of 10 entries, and these are the most recently
\* appended messages in the order they were appended, the oldest being
\* dropped first.
C39_LogBounded ==
    /\ Len(CombatLog) <= 10
    /\ lastOp = "AddLog" =>
           LET kept == Min2(Len(lastArg), 10)
           IN  /\ Len(CombatLog) = kept
               /\ \A i \in 1..kept :
                      CombatLog[i] = lastArg[Len(lastArg) - kept + i]

\* two messages more than the capacity were appended and the two oldest,
\* which differ from what is now the oldest entry, are gone
C39_Witness ==
    /\ lastOp = "AddLog"
    /\ Len(lastArg) = 12
    /\ Len(CombatLog) = 10
    /\ lastArg[1] # lastArg[3]
    /\ CombatLog[1] = lastArg[3]

----------------------------------------------------------------------------
(* Properties of the commands executed *)

\* C40: every command that ExecutePendingAction executes has the combatant
\* at the current index as its actor, and the index advances only when a
\* command has been executed for the turn: no combatant acts outside its own
\* turn and each turn executes exactly one command.
C40_ActorIsActive ==
    [][ /\ lastOp' = "ExecutePendingAction" =>
               PendingAction.Actor = TurnOrder[CurrentIdx + 1]
        /\ (started /\ CurrentIdx' # CurrentIdx) =>
               lastOp' = "ExecutePendingAction" ]_vars

====
